---- MODULE Spec2Model ----
(***************************************************************************)
(* SPIdev: register access over SPI (src/SPIdev.cpp, src/SPIdev.h).        *)
(*                                                                         *)
(* The four buffer-level functions readBytes, readWords, writeBytes and    *)
(* writeWords are modelled statement by statement; the single-unit and     *)
(* bit-level functions are modelled as the callers they are.  Every bus    *)
(* event of the call in progress (beginTransaction, digitalWrite,          *)
(* SPI.transfer, endTransaction) is appended to `trace`.                   *)
(***************************************************************************)
EXTENDS Integers, Sequences, FiniteSets, TLC

(***************************************************************************)
(* Bounds of the model and sample inputs.                                  *)
(***************************************************************************)
\* largest unit count passed to a buffer-level function
MaxLen == 2
\* number of bus events of one call that the record `trace` keeps
MaxTrace == 32
\* unit counts on both sides of the largest int8_t, and the largest uint8_t
LongLengths == {127, 128, 255}
\* the register, the byte and the word used with those unit counts
LongSample == [regAddr |-> 5, byte |-> 165, word |-> 42405]

\* register addresses used by callers (7-bit: lowest, an ordinary one, highest)
RegAddrs == {0, 5, 127}
\* bytes a device may answer with
ByteSamples == {0, 8, 165, 247}
\* bytes a caller may pass as data
ValueSamples == {0, 1, 165, 255}
\* words a caller may pass as data
WordSamples == {0, 4660, 43981}
\* contents an uninitialised uint16_t may turn out to have
GarbageWords == {0, 23040}
\* chip-select pins a handle may be constructed with
Pins == {10}
\* SPISettings objects a caller may pass to the constructor
SettingsSamples == {1, 2}
\* chip-select pins of a program that constructs several handles
HandlePins == {9, 10}

(***************************************************************************)
(* Program constants.                                                      *)
(***************************************************************************)
READ == 128
LSBFIRST == 0
MSBFIRST == 1
LOW == 0
HIGH == 1
\* a default-constructed SPISettings (the static member's initial value)
DefaultSettings == 0
\* marks a buffer element or local that no statement has assigned yet
Uninit == -1
\* the value recorded for the result of an SPI.transfer the code discards
Discarded == -1

(***************************************************************************)
(* Fixed-width integer arithmetic of the C++ code.                         *)
(***************************************************************************)
RECURSIVE BitAnd(_, _)
BitAnd(x, y) ==
    IF x = 0 \/ y = 0 THEN 0
    ELSE (x % 2) * (y % 2) + 2 * BitAnd(x \div 2, y \div 2)

RECURSIVE BitOr(_, _)
BitOr(x, y) ==
    IF x = 0 THEN y
    ELSE IF y = 0 THEN x
    ELSE (IF x % 2 = 1 \/ y % 2 = 1 THEN 1 ELSE 0) + 2 * BitOr(x \div 2, y \div 2)

Shl(x, n) == x * (2 ^ n)
Shr(x, n) == x \div (2 ^ n)
\* conversion to uint8_t / uint16_t / int8_t
U8(x) == x % 256
U16(x) == x % 65536
Int8(x) == IF x % 256 >= 128 THEN (x % 256) - 256 ELSE x % 256
\* ~x on an int, seen through a conversion to uint8_t / uint16_t
Not8(x) == U8(-x - 1)
Not16(x) == U16(-x - 1)

(***************************************************************************)
(* State.                                                                  *)
(***************************************************************************)
VARIABLES
    slave,      \* static uint8_t SPIdev::slave
    dataOrder,  \* static uint8_t SPIdev::dataOrder
    settings,   \* static SPISettings SPIdev::settings
    call,       \* the public function the caller invoked, with its arguments
    cpc,        \* position in that function
    t,          \* frame of the buffer-level function in progress
    buf,        \* the caller's buffer `data` handed to the buffer-level function
    ret,        \* value returned by the last function that returned
    out,        \* *data as stored by a bit-level read
    trace,      \* bus events of the call in progress
    pinLevel,   \* output level of each chip-select pin
    dev,        \* device: register written last and the bytes written to it
    mock,       \* TRUE: the device reads back what was written last
    sess,       \* register field a read-back session works on
    lastWrite,  \* read-back session: the last completed writeBits call
    twin        \* comparison of two calls: what the first of them did

vars == <<slave, dataOrder, settings, call, cpc, t, buf, ret, out, trace,
          pinLevel, dev, mock, sess, lastWrite, twin>>

statics == <<slave, dataOrder, settings>>
session == <<mock, sess, twin>>

NoFrame == [fn |-> "none", pc |-> "none", regAddr |-> 0, length |-> 0,
            count |-> 0, msb |-> 0, ab |-> 0]
NoCall == [name |-> "none", regAddr |-> 0, bit |-> 0, length |-> 0, data |-> 0]
NoDev == [reg |-> -1, data |-> <<>>]
NoSess == [regAddr |-> 0, bitStart |-> 0, length |-> 0]
NoWrite == [regAddr |-> -1, bitStart |-> 0, length |-> 0, data |-> 0]
\* no comparison going on / a comparison whose first call is yet to be made
NoTwin == [on |-> FALSE, seen |-> FALSE, call |-> NoCall, trace |-> <<>>,
           ret |-> 0, out |-> Uninit, buf |-> <<>>]
FirstOfTwo == [NoTwin EXCEPT !.on = TRUE]

(***************************************************************************)
(* Bus events.  An event is <<kind, a, b>>:                                *)
(*   <<"begin", settings, 0>>   SPI.beginTransaction(settings)             *)
(*   <<"cs", pin, level>>       digitalWrite(pin, level)                   *)
(*   <<"xfer", sent, received>> SPI.transfer(sent), with its result        *)
(*   <<"end", 0, 0>>            SPI.endTransaction()                       *)
(***************************************************************************)
Kinds(s, k) == {i \in DOMAIN s : s[i][1] = k}
MaxOf(S) == CHOOSE m \in S : \A n \in S : n <= m
\* the events of the transaction begun last
CurTxn ==
    IF Kinds(trace, "begin") = {} THEN <<>>
    ELSE SubSeq(trace, MaxOf(Kinds(trace, "begin")), Len(trace))
\* position, among the data bytes of the current transaction, of the next one
NextDataIdx == Cardinality(Kinds(CurTxn, "xfer"))

(***************************************************************************)
(* The device.  The first byte of a transaction addresses a register; bit  *)
(* 7 set asks for a read.  A read-back device (mock) answers a read of the *)
(* register written last with the bytes written to it; any other answer is *)
(* unconstrained.                                                          *)
(***************************************************************************)
\* the n-th smallest element of a set of numbers
NthOf(S, n) == CHOOSE i \in S : Cardinality({j \in S : j <= i}) = n
\* in the second of two calls under comparison: what the device answered to
\* the transfer of the first call that stands where the next transfer stands
Replayed ==
    LET n == Cardinality(Kinds(trace, "xfer")) + 1
        xs == Kinds(twin.trace, "xfer")
    IN  IF twin.seen /\ n <= Cardinality(xs)
        THEN twin.trace[NthOf(xs, n)][3] ELSE Discarded

DevAnswers(ab, k) ==
    IF Replayed # Discarded THEN {Replayed}
    ELSE IF mock /\ ab >= READ /\ dev.reg = ab - READ /\ k <= Len(dev.data)
    THEN {dev.data[k]}
    ELSE ByteSamples

DevStore(ab, k, x) ==
    IF mock /\ ab < READ
    THEN LET base == IF dev.reg = ab THEN dev.data ELSE <<>>
         IN  [reg |-> ab,
              data |-> IF k <= Len(base) THEN [base EXCEPT ![k] = x]
                       ELSE Append(base, x)]
    ELSE dev

(***************************************************************************)
(* SPIdev::SPIdev(slavePin, settings, bitOrder)                            *)
(***************************************************************************)
\* slave = slavePin;  (int8_t to uint8_t)
CtorSlave(slavePin) == U8(slavePin)
\* settings = settings;  the parameter hides the static member, which keeps
\* the value it had
CtorSettings(member, param) == member
\* dataOrder = bitOrder;
CtorDataOrder(bitOrder) == bitOrder

\* pinMode(slave, OUTPUT) leaves the output latch as it was: low after reset
InitStatics ==
    \E slavePin \in Pins, s \in SettingsSamples, bitOrder \in {LSBFIRST, MSBFIRST} :
        /\ slave = CtorSlave(slavePin)
        /\ settings = CtorSettings(DefaultSettings, s)
        /\ dataOrder = CtorDataOrder(bitOrder)
        /\ pinLevel = [p \in Pins |-> LOW]

\* the arguments the first handle of a program is constructed with
FirstHandle == [slavePin |-> 10, settings |-> 1, bitOrder |-> MSBFIRST]

\* the static members after SPIdev(slavePin, settings, bitOrder)
Constructed(slavePin, s, bitOrder, member) ==
    [slave |-> CtorSlave(slavePin), settings |-> CtorSettings(member, s),
     dataOrder |-> CtorDataOrder(bitOrder)]

InitCaller ==
    /\ call = NoCall
    /\ cpc = "idle"
    /\ t = NoFrame
    /\ buf = <<>>
    /\ ret = 0
    /\ out = Uninit
    /\ trace = <<>>

Init ==
    /\ InitStatics
    /\ InitCaller
    /\ dev = NoDev
    /\ mock = FALSE
    /\ sess = NoSess
    /\ lastWrite = NoWrite
    /\ twin = NoTwin

(***************************************************************************)
(* Helpers shared by the buffer-level functions.                           *)
(***************************************************************************)
\* the record keeps the first MaxTrace events of a call
Emit(e) == trace' = IF Len(trace) < MaxTrace THEN Append(trace, e) ELSE trace

\* SPI.beginTransaction(settings)
BeginTransaction == Emit(<<"begin", settings, 0>>) /\ UNCHANGED pinLevel
\* SPI.endTransaction()
EndTransaction == Emit(<<"end", 0, 0>>) /\ UNCHANGED pinLevel
\* digitalWrite(pin, level)
DigitalWrite(pin, level) ==
    /\ pinLevel' = [pinLevel EXCEPT ![pin] = level]
    /\ Emit(<<"cs", pin, level>>)

\* data[i] = x on the caller's buffer (data[0] is element 1 of buf); an index
\* outside the buffer writes the memory at that distance from it
Store(b, i, x) ==
    IF i + 1 \in DOMAIN b THEN [b EXCEPT ![i + 1] = x] ELSE ((i + 1) :> x) @@ b

\* the frame of a buffer-level function at its first statement
Enter(fn, regAddr, length) ==
    [fn |-> fn, pc |-> "begin", regAddr |-> regAddr, length |-> length,
     count |-> 0, msb |-> 0, ab |-> 0]

At(fn, pc) == t.fn = fn /\ t.pc = pc
Goto(pc) == t' = [t EXCEPT !.pc = pc]

\* where the caller continues when the buffer-level function returns: the
\* single-unit functions and the write half of a read-modify-write return
\* what it returned
Passthrough == {"readBytes", "readByte", "readWords", "readWord",
                "writeBytes", "writeByte", "writeWords", "writeWord"}
AfterReturn ==
    IF call.name \in Passthrough \/ cpc = "inWrite" THEN "done" ELSE "afterRead"

\* read-back session: remember the writeBits or writeBitsW call that has just
\* completed
NoteWrite ==
    IF mock /\ cpc = "inWrite" /\ call.name \in {"writeBits", "writeBitsW"}
    THEN [regAddr |-> call.regAddr, bitStart |-> call.bit,
          length |-> call.length, data |-> call.data]
    ELSE lastWrite

\* a bool the code returns, as the integer a C++ bool is: true is 1, false 0
BoolOf(p) == IF p THEN 1 ELSE 0

Return(value) ==
    /\ t' = NoFrame
    /\ ret' = value
    /\ cpc' = AfterReturn
    /\ lastWrite' = NoteWrite
    /\ UNCHANGED <<statics, session, call, buf, out, trace, pinLevel, dev>>

\* what a step inside a buffer-level function leaves alone
StepFrame == UNCHANGED <<statics, session, call, cpc, ret, out, lastWrite>>

(***************************************************************************)
(* int8_t SPIdev::readBytes(uint8_t regAddr, uint8_t length, uint8_t *data)*)
(***************************************************************************)
\* variant: the read flag is left out of the address byte
readBytes_AddrByte_NoFlag(regAddr) == regAddr
\* regAddr | READ
readBytes_AddrByte(regAddr) == BitOr(regAddr, READ)

readBytes_begin ==
    /\ At("readBytes", "begin")
    /\ BeginTransaction
    /\ Goto("select")
    /\ StepFrame /\ UNCHANGED <<buf, dev>>

readBytes_select ==
    /\ At("readBytes", "select")
    /\ DigitalWrite(slave, LOW)
    /\ Goto("addr")
    /\ StepFrame /\ UNCHANGED <<buf, dev>>

readBytes_addr ==
    /\ At("readBytes", "addr")
    /\ Emit(<<"xfer", readBytes_AddrByte(t.regAddr), Discarded>>)
    /\ t' = [t EXCEPT !.pc = "loop", !.ab = readBytes_AddrByte(t.regAddr)]
    /\ StepFrame /\ UNCHANGED <<buf, dev, pinLevel>>

\* for(; count < length; count++) data[count] = SPI.transfer(0x00);
readBytes_loop ==
    /\ At("readBytes", "loop")
    /\ t.count < t.length
    /\ \E x \in DevAnswers(t.ab, NextDataIdx) :
          /\ Emit(<<"xfer", 0, x>>)
          /\ buf' = Store(buf, t.count, x)
    /\ t' = [t EXCEPT !.count = Int8(t.count + 1)]
    /\ StepFrame /\ UNCHANGED <<dev, pinLevel>>

readBytes_deselect ==
    /\ At("readBytes", "loop")
    /\ ~(t.count < t.length)
    /\ DigitalWrite(slave, HIGH)
    /\ Goto("end")
    /\ StepFrame /\ UNCHANGED <<buf, dev>>

\* variant: the function returns without SPI.endTransaction()
readBytes_end_Forgotten ==
    /\ At("readBytes", "end")
    /\ Goto("ret")
    /\ StepFrame /\ UNCHANGED <<buf, dev, trace, pinLevel>>

readBytes_end ==
    /\ At("readBytes", "end")
    /\ EndTransaction
    /\ Goto("ret")
    /\ StepFrame /\ UNCHANGED <<buf, dev>>

readBytes_return ==
    /\ At("readBytes", "ret")
    /\ Return(t.count)

(***************************************************************************)
(* bool SPIdev::writeBytes(uint8_t regAddr, uint8_t length, uint8_t* data) *)
(***************************************************************************)
\* SPI.transfer(regAddr): the address as it is
writeBytes_AddrByte(regAddr) == regAddr
\* uint8_t status = 0; ... return status == 0;
writeBytes_Status == 0

writeBytes_begin ==
    /\ At("writeBytes", "begin")
    /\ BeginTransaction
    /\ Goto("select")
    /\ StepFrame /\ UNCHANGED <<buf, dev>>

writeBytes_select ==
    /\ At("writeBytes", "select")
    /\ DigitalWrite(slave, LOW)
    /\ Goto("addr")
    /\ StepFrame /\ UNCHANGED <<buf, dev>>

writeBytes_addr ==
    /\ At("writeBytes", "addr")
    /\ Emit(<<"xfer", writeBytes_AddrByte(t.regAddr), Discarded>>)
    /\ t' = [t EXCEPT !.pc = "loop", !.ab = writeBytes_AddrByte(t.regAddr)]
    /\ StepFrame /\ UNCHANGED <<buf, dev, pinLevel>>

\* for (uint8_t i = 0; i < length; i++) SPI.transfer((uint8_t) data[i]);
writeBytes_loop ==
    /\ At("writeBytes", "loop")
    /\ t.count < t.length
    /\ Emit(<<"xfer", U8(buf[t.count + 1]), Discarded>>)
    /\ dev' = DevStore(t.ab, NextDataIdx, U8(buf[t.count + 1]))
    /\ t' = [t EXCEPT !.count = U8(t.count + 1)]
    /\ StepFrame /\ UNCHANGED <<buf, pinLevel>>

\* variant: the function forgets to drive chip-select high
writeBytes_deselect_Forgotten ==
    /\ At("writeBytes", "loop")
    /\ ~(t.count < t.length)
    /\ Goto("end")
    /\ StepFrame /\ UNCHANGED <<buf, dev, trace, pinLevel>>

writeBytes_deselect ==
    /\ At("writeBytes", "loop")
    /\ ~(t.count < t.length)
    /\ DigitalWrite(slave, HIGH)
    /\ Goto("end")
    /\ StepFrame /\ UNCHANGED <<buf, dev>>

writeBytes_end ==
    /\ At("writeBytes", "end")
    /\ EndTransaction
    /\ Goto("ret")
    /\ StepFrame /\ UNCHANGED <<buf, dev>>

writeBytes_return ==
    /\ At("writeBytes", "ret")
    /\ Return(BoolOf(writeBytes_Status = 0))

(***************************************************************************)
(* int8_t SPIdev::readWords(uint8_t regAddr, uint8_t length,               *)
(*                          uint16_t *data)                                *)
(***************************************************************************)
\* conversion of an integer to bool, held as 0 or 1
ToBool(x) == IF x # 0 THEN 1 ELSE 0
\* regAddr | READ
readWords_AddrByte(regAddr) == BitOr(regAddr, READ)
\* bool msb = dataOrder;
readWords_InitialPhase(order) == ToBool(order)
\* variant: the first byte of a word is stored without the shift
readWords_High_NoShift(x) == U16(x)
\* data[count] = SPI.transfer(0x00) << 8;
readWords_High(x) == U16(Shl(x, 8))
\* data[count] |= SPI.transfer(0x00);
readWords_Merge(old, x) == U16(BitOr(old, x))
\* what data[i] holds before it is ORed into: an element nothing has assigned
\* holds whatever the memory held
OldWord(b, i) ==
    IF i + 1 \in DOMAIN b /\ b[i + 1] # Uninit THEN {b[i + 1]} ELSE GarbageWords

readWords_begin ==
    /\ At("readWords", "begin")
    /\ BeginTransaction
    /\ Goto("select")
    /\ StepFrame /\ UNCHANGED <<buf, dev>>

readWords_select ==
    /\ At("readWords", "select")
    /\ DigitalWrite(slave, LOW)
    /\ Goto("addr")
    /\ StepFrame /\ UNCHANGED <<buf, dev>>

\* bool msb = dataOrder; SPI.transfer(regAddr | READ);
readWords_addr ==
    /\ At("readWords", "addr")
    /\ Emit(<<"xfer", readWords_AddrByte(t.regAddr), Discarded>>)
    /\ t' = [t EXCEPT !.pc = "loop", !.ab = readWords_AddrByte(t.regAddr),
                      !.msb = readWords_InitialPhase(dataOrder)]
    /\ StepFrame /\ UNCHANGED <<buf, dev, pinLevel>>

\* one pass of for(; count < length;): one transfer, placed by the phase
readWords_loop ==
    /\ At("readWords", "loop")
    /\ t.count < t.length
    /\ \E x \in DevAnswers(t.ab, NextDataIdx), old \in OldWord(buf, t.count) :
          /\ Emit(<<"xfer", 0, x>>)
          /\ IF t.msb = MSBFIRST
             THEN /\ buf' = Store(buf, t.count, readWords_High(x))
                  /\ t' = [t EXCEPT !.msb = ToBool(LSBFIRST)]
             ELSE /\ buf' = Store(buf, t.count, readWords_Merge(old, x))
                  /\ t' = [t EXCEPT !.count = Int8(t.count + 1),
                                    !.msb = ToBool(MSBFIRST)]
    /\ StepFrame /\ UNCHANGED <<dev, pinLevel>>

readWords_deselect ==
    /\ At("readWords", "loop")
    /\ ~(t.count < t.length)
    /\ DigitalWrite(slave, HIGH)
    /\ Goto("end")
    /\ StepFrame /\ UNCHANGED <<buf, dev>>

readWords_end ==
    /\ At("readWords", "end")
    /\ EndTransaction
    /\ Goto("ret")
    /\ StepFrame /\ UNCHANGED <<buf, dev>>

readWords_return ==
    /\ At("readWords", "ret")
    /\ Return(t.count)

(***************************************************************************)
(* bool SPIdev::writeWords(uint8_t regAddr, uint8_t length,                *)
(*                         uint16_t* data)                                 *)
(***************************************************************************)
\* SPI.transfer(regAddr): the address as it is
writeWords_AddrByte(regAddr) == regAddr
\* variant: the low byte is sent in place of the high byte
writeWords_MSB_Low(w) == U8(w)
\* (uint8_t)(data[i] >> 8)
writeWords_MSB(w) == U8(Shr(w, 8))
\* (uint8_t)data[i]
writeWords_LSB(w) == U8(w)
\* uint8_t status = 0; ... return status == 0;
writeWords_Status == 0

writeWords_begin ==
    /\ At("writeWords", "begin")
    /\ BeginTransaction
    /\ Goto("select")
    /\ StepFrame /\ UNCHANGED <<buf, dev>>

writeWords_select ==
    /\ At("writeWords", "select")
    /\ DigitalWrite(slave, LOW)
    /\ Goto("addr")
    /\ StepFrame /\ UNCHANGED <<buf, dev>>

writeWords_addr ==
    /\ At("writeWords", "addr")
    /\ Emit(<<"xfer", writeWords_AddrByte(t.regAddr), Discarded>>)
    /\ t' = [t EXCEPT !.pc = "loop", !.ab = writeWords_AddrByte(t.regAddr)]
    /\ StepFrame /\ UNCHANGED <<buf, dev, pinLevel>>

\* SPI.transfer((uint8_t)(data[i] >> 8));
writeWords_msb ==
    /\ At("writeWords", "loop")
    /\ t.count < t.length
    /\ Emit(<<"xfer", writeWords_MSB(buf[t.count + 1]), Discarded>>)
    /\ dev' = DevStore(t.ab, NextDataIdx, writeWords_MSB(buf[t.count + 1]))
    /\ Goto("lsb")
    /\ StepFrame /\ UNCHANGED <<buf, pinLevel>>

\* SPI.transfer((uint8_t)data[i]); i++
writeWords_lsb ==
    /\ At("writeWords", "lsb")
    /\ Emit(<<"xfer", writeWords_LSB(buf[t.count + 1]), Discarded>>)
    /\ dev' = DevStore(t.ab, NextDataIdx, writeWords_LSB(buf[t.count + 1]))
    /\ t' = [t EXCEPT !.pc = "loop", !.count = U8(t.count + 1)]
    /\ StepFrame /\ UNCHANGED <<buf, pinLevel>>

writeWords_deselect ==
    /\ At("writeWords", "loop")
    /\ ~(t.count < t.length)
    /\ DigitalWrite(slave, HIGH)
    /\ Goto("end")
    /\ StepFrame /\ UNCHANGED <<buf, dev>>

writeWords_end ==
    /\ At("writeWords", "end")
    /\ EndTransaction
    /\ Goto("ret")
    /\ StepFrame /\ UNCHANGED <<buf, dev>>

writeWords_return ==
    /\ At("writeWords", "ret")
    /\ Return(BoolOf(writeWords_Status = 0))

(***************************************************************************)
(* The public functions, as the caller enters them.                        *)
(***************************************************************************)
Idle == cpc = "idle"

\* a caller's buffer or local of n elements that nothing has assigned yet
Fresh(n) == [i \in 1..n |-> Uninit]

\* the caller enters `name`, which calls buffer-level function fn on buffer b
Invoke(name, regAddr, bit, length, data, stage, fn, n, b) ==
    /\ Idle
    /\ call' = [name |-> name, regAddr |-> regAddr, bit |-> bit,
                length |-> length, data |-> data]
    /\ cpc' = stage
    /\ t' = Enter(fn, regAddr, n)
    /\ buf' = b
    /\ ret' = 0
    /\ out' = Uninit
    /\ trace' = <<>>
    /\ UNCHANGED <<statics, session, pinLevel, dev, lastWrite>>

readBytes(regAddr, length) ==
    Invoke("readBytes", regAddr, 0, length, 0, "inRead",
           "readBytes", length, Fresh(length))

readWords(regAddr, length) ==
    Invoke("readWords", regAddr, 0, length, 0, "inRead",
           "readWords", length, Fresh(length))

writeBytes(regAddr, length, data) ==
    Invoke("writeBytes", regAddr, 0, length, data, "inWrite",
           "writeBytes", length, data)

writeWords(regAddr, length, data) ==
    Invoke("writeWords", regAddr, 0, length, data, "inWrite",
           "writeWords", length, data)

\* return readBytes(regAddr, 1, data);
readByte(regAddr) ==
    Invoke("readByte", regAddr, 0, 1, 0, "inRead", "readBytes", 1, Fresh(1))

\* return readWords(regAddr, 1, data);
readWord(regAddr) ==
    Invoke("readWord", regAddr, 0, 1, 0, "inRead", "readWords", 1, Fresh(1))

\* return writeBytes(regAddr, 1, &data);
writeByte(regAddr, data) ==
    Invoke("writeByte", regAddr, 0, 1, data, "inWrite",
           "writeBytes", 1, <<data>>)

\* return writeWords(regAddr, 1, &data);
writeWord(regAddr, data) ==
    Invoke("writeWord", regAddr, 0, 1, data, "inWrite",
           "writeWords", 1, <<data>>)

\* uint8_t b; uint8_t count = readByte(regAddr, &b);
readBit(regAddr, bitNum) ==
    Invoke("readBit", regAddr, bitNum, 1, 0, "inRead", "readBytes", 1, Fresh(1))

\* uint16_t b; uint8_t count = readWord(regAddr, &b);
readBitW(regAddr, bitNum) ==
    Invoke("readBitW", regAddr, bitNum, 1, 0, "inRead", "readWords", 1, Fresh(1))

\* uint8_t count, b; if ((count = readByte(regAddr, &b)) != 0)
readBits(regAddr, bitStart, length) ==
    Invoke("readBits", regAddr, bitStart, length, 0, "inRead",
           "readBytes", 1, Fresh(1))

\* uint8_t b; readByte(regAddr, &b);
writeBit(regAddr, bitNum, data) ==
    Invoke("writeBit", regAddr, bitNum, 1, data, "inRead",
           "readBytes", 1, Fresh(1))

\* uint8_t b; if (readByte(regAddr, &b) != 0)
writeBits(regAddr, bitStart, length, data) ==
    Invoke("writeBits", regAddr, bitStart, length, data, "inRead",
           "readBytes", 1, Fresh(1))

\* uint8_t count; uint16_t w; if ((count = readWord(regAddr, &w)) != 0)
readBitsW(regAddr, bitStart, length) ==
    Invoke("readBitsW", regAddr, bitStart, length, 0, "inRead",
           "readWords", 1, Fresh(1))

\* uint16_t w; readWord(regAddr, &w);
writeBitW(regAddr, bitNum, data) ==
    Invoke("writeBitW", regAddr, bitNum, 1, data, "inRead",
           "readWords", 1, Fresh(1))

\* uint16_t w; if (readWord(regAddr, &w) != 0)
writeBitsW(regAddr, bitStart, length, data) ==
    Invoke("writeBitsW", regAddr, bitStart, length, data, "inRead",
           "readWords", 1, Fresh(1))

(***************************************************************************)
(* The overloads that take a device address and, for reads, a timeout:     *)
(* each returns what the function without them returns.                    *)
(***************************************************************************)
\* uint16_t SPIdev::readTimeout = 0;
readTimeout == 0

readBit_dev(devAddr, regAddr, bitNum, timeout) == readBit(regAddr, bitNum)
readBitW_dev(devAddr, regAddr, bitNum, timeout) == readBitW(regAddr, bitNum)
readBits_dev(devAddr, regAddr, bitStart, length, timeout) ==
    readBits(regAddr, bitStart, length)
readBitsW_dev(devAddr, regAddr, bitStart, length, timeout) ==
    readBitsW(regAddr, bitStart, length)
readByte_dev(devAddr, regAddr, timeout) == readByte(regAddr)
readWord_dev(devAddr, regAddr, timeout) == readWord(regAddr)
\* variant: the device address is passed on as the register address
readBytes_dev_Misrouted(devAddr, regAddr, length, timeout) ==
    readBytes(devAddr, length)
readBytes_dev(devAddr, regAddr, length, timeout) == readBytes(regAddr, length)
readWords_dev(devAddr, regAddr, length, timeout) == readWords(regAddr, length)
writeBit_dev(devAddr, regAddr, bitNum, data) == writeBit(regAddr, bitNum, data)
writeBitW_dev(devAddr, regAddr, bitNum, data) ==
    writeBitW(regAddr, bitNum, data)
writeBits_dev(devAddr, regAddr, bitStart, length, data) ==
    writeBits(regAddr, bitStart, length, data)
writeBitsW_dev(devAddr, regAddr, bitStart, length, data) ==
    writeBitsW(regAddr, bitStart, length, data)
writeByte_dev(devAddr, regAddr, data) == writeByte(regAddr, data)
writeWord_dev(devAddr, regAddr, data) == writeWord(regAddr, data)
writeBytes_dev(devAddr, regAddr, length, data) ==
    writeBytes(regAddr, length, data)
writeWords_dev(devAddr, regAddr, length, data) ==
    writeWords(regAddr, length, data)

(***************************************************************************)
(* The bit-level functions after their read has returned.  The shifts of   *)
(* the code are done in int, taken here as wide enough (32 bits) for       *)
(* 1 << 16 and for a 16-bit value shifted left by 15.                      *)
(***************************************************************************)
Resumes(name) == call.name = name /\ cpc = "afterRead"

\* return of a bit-level read: out is *data, ret the count as int8_t
Finish(data) ==
    /\ out' = data
    /\ ret' = Int8(U8(ret))
    /\ cpc' = "done"
    /\ UNCHANGED <<statics, session, call, t, buf, trace, pinLevel, dev,
                   lastWrite>>

\* the read-modify-write goes on to writeByte(regAddr, b)
ThenWriteByte(b) ==
    /\ t' = Enter("writeBytes", call.regAddr, 1)
    /\ buf' = <<b>>
    /\ cpc' = "inWrite"
    /\ UNCHANGED <<statics, session, call, ret, out, trace, pinLevel, dev,
                   lastWrite>>

\* variant: the bit number is used as the mask
readBit_Data_NoShift(b, bitNum) == U8(BitAnd(b, bitNum))
\* b & (1 << bitNum), stored in a uint8_t
readBit_Data(b, bitNum) == U8(BitAnd(b, Shl(1, bitNum)))
\* b & (1 << bitNum), stored in a uint16_t
readBitW_Data(w, bitNum) == U16(BitAnd(w, Shl(1, bitNum)))
\* uint8_t mask = ((1 << length) - 1) << (bitStart - length + 1);
readBits_Mask(bitStart, length) ==
    U8(Shl(Shl(1, length) - 1, bitStart - length + 1))
\* variant: the masked field is not shifted down
readBits_Data_NoShift(b, bitStart, length) ==
    BitAnd(b, U8(Shl(Shl(1, length) - 1, bitStart - length + 1)))
\* b &= mask; b >>= (bitStart - length + 1);
readBits_Data(b, bitStart, length) ==
    Shr(BitAnd(b, readBits_Mask(bitStart, length)), bitStart - length + 1)
\* variant: clearing uses the mask without complementing it
writeBit_Byte_NoComplement(b, bitNum, data) ==
    IF data # 0 THEN U8(BitOr(b, Shl(1, bitNum)))
    ELSE U8(BitAnd(b, Shl(1, bitNum)))
\* b = (data != 0) ? (b | (1 << bitNum)) : (b & ~(1 << bitNum));
writeBit_Byte(b, bitNum, data) ==
    IF data # 0 THEN U8(BitOr(b, Shl(1, bitNum)))
    ELSE U8(BitAnd(b, Not8(Shl(1, bitNum))))
\* uint8_t mask = ((1 << length) - 1) << (bitStart - length + 1);
writeBits_Mask(bitStart, length) ==
    U8(Shl(Shl(1, length) - 1, bitStart - length + 1))
\* variant: the shifted value is not masked to the field
writeBits_Byte_NoMask(b, bitStart, length, data) ==
    BitOr(BitAnd(b, Not8(U8(Shl(Shl(1, length) - 1, bitStart - length + 1)))),
          U8(Shl(data, bitStart - length + 1)))
\* variant: the shifted value replaces the byte instead of being ORed into it
writeBits_Byte_Replaces(b, bitStart, length, data) ==
    BitAnd(U8(Shl(data, bitStart - length + 1)),
           U8(Shl(Shl(1, length) - 1, bitStart - length + 1)))
\* data <<= (bitStart - length + 1); data &= mask; b &= ~(mask); b |= data;
writeBits_Byte(b, bitStart, length, data) ==
    LET mask == writeBits_Mask(bitStart, length)
        shifted == U8(Shl(data, bitStart - length + 1))
    IN  BitOr(BitAnd(b, Not8(mask)), BitAnd(shifted, mask))

\* the read-modify-write goes on to writeWord(regAddr, w)
ThenWriteWord(w) ==
    /\ t' = Enter("writeWords", call.regAddr, 1)
    /\ buf' = <<w>>
    /\ cpc' = "inWrite"
    /\ UNCHANGED <<statics, session, call, ret, out, trace, pinLevel, dev,
                   lastWrite>>

\* uint16_t mask = ((1 << length) - 1) << (bitStart - length + 1);
readBitsW_Mask(bitStart, length) ==
    U16(Shl(Shl(1, length) - 1, bitStart - length + 1))
\* variant: the masked field is not shifted down
readBitsW_Data_NoShift(w, bitStart, length) ==
    BitAnd(w, U16(Shl(Shl(1, length) - 1, bitStart - length + 1)))
\* w &= mask; w >>= (bitStart - length + 1);
readBitsW_Data(w, bitStart, length) ==
    Shr(BitAnd(w, readBitsW_Mask(bitStart, length)), bitStart - length + 1)
\* w = (data != 0) ? (w | (1 << bitNum)) : (w & ~(1 << bitNum));
writeBitW_Word(w, bitNum, data) ==
    IF data # 0 THEN U16(BitOr(w, Shl(1, bitNum)))
    ELSE U16(BitAnd(w, Not16(Shl(1, bitNum))))
\* uint16_t mask = ((1 << length) - 1) << (bitStart - length + 1);
writeBitsW_Mask(bitStart, length) ==
    U16(Shl(Shl(1, length) - 1, bitStart - length + 1))
\* variant: the shifted value is not masked to the field
writeBitsW_Word_NoMask(w, bitStart, length, data) ==
    BitOr(BitAnd(w, Not16(U16(Shl(Shl(1, length) - 1, bitStart - length + 1)))),
          U16(Shl(data, bitStart - length + 1)))
\* data <<= (bitStart - length + 1); data &= mask; w &= ~(mask); w |= data;
writeBitsW_Word(w, bitStart, length, data) ==
    LET mask == writeBitsW_Mask(bitStart, length)
        shifted == U16(Shl(data, bitStart - length + 1))
    IN  BitOr(BitAnd(w, Not16(mask)), BitAnd(shifted, mask))

\* *data = b & (1 << bitNum); return count;
readBit_store ==
    /\ Resumes("readBit")
    /\ Finish(readBit_Data(buf[1], call.bit))

readBitW_store ==
    /\ Resumes("readBitW")
    /\ Finish(readBitW_Data(buf[1], call.bit))

\* if (count != 0) { ... *data = b; } return count;
readBits_store ==
    /\ Resumes("readBits")
    /\ Finish(IF U8(ret) # 0
              THEN readBits_Data(buf[1], call.bit, call.length)
              ELSE out)

\* b = ...; return writeByte(regAddr, b);
writeBit_modify ==
    /\ Resumes("writeBit")
    /\ ThenWriteByte(writeBit_Byte(buf[1], call.bit, call.data))

\* variant: the test of the read's result is inverted
writeBits_modify_Inverted ==
    /\ Resumes("writeBits")
    /\ IF ret = 0
       THEN ThenWriteByte(writeBits_Byte(buf[1], call.bit, call.length, call.data))
       ELSE /\ ret' = BoolOf(FALSE)
            /\ cpc' = "done"
            /\ UNCHANGED <<statics, session, call, t, buf, out, trace,
                           pinLevel, dev, lastWrite>>

\* if (readByte(regAddr, &b) != 0) { ... return writeByte(regAddr, b); }
\* else return false;
writeBits_modify ==
    /\ Resumes("writeBits")
    /\ IF ret # 0
       THEN ThenWriteByte(writeBits_Byte(buf[1], call.bit, call.length, call.data))
       ELSE /\ ret' = BoolOf(FALSE)
            /\ cpc' = "done"
            /\ UNCHANGED <<statics, session, call, t, buf, out, trace,
                           pinLevel, dev, lastWrite>>

\* if (count != 0) { ... *data = w; } return count;
readBitsW_store ==
    /\ Resumes("readBitsW")
    /\ Finish(IF U8(ret) # 0
              THEN readBitsW_Data(buf[1], call.bit, call.length)
              ELSE out)

\* w = ...; return writeWord(regAddr, w);
writeBitW_modify ==
    /\ Resumes("writeBitW")
    /\ ThenWriteWord(writeBitW_Word(buf[1], call.bit, call.data))

\* if (readWord(regAddr, &w) != 0) { ... return writeWord(regAddr, w); }
\* else return false;
writeBitsW_modify ==
    /\ Resumes("writeBitsW")
    /\ IF ret # 0
       THEN ThenWriteWord(writeBitsW_Word(buf[1], call.bit, call.length,
                                          call.data))
       ELSE /\ ret' = BoolOf(FALSE)
            /\ cpc' = "done"
            /\ UNCHANGED <<statics, session, call, t, buf, out, trace,
                           pinLevel, dev, lastWrite>>

\* comparison of two calls: when the first returns, what it did is kept; when
\* the second returns, the comparison is over
Observed ==
    IF ~twin.on THEN twin
    ELSE IF twin.seen THEN FirstOfTwo
    ELSE [on |-> TRUE, seen |-> TRUE, call |-> call, trace |-> trace,
          ret |-> ret, out |-> out, buf |-> buf]

\* the public function has returned: its frame and the caller's temporaries
\* are gone, the caller is free to make its next call
Returned ==
    /\ cpc = "done"
    /\ call' = NoCall
    /\ cpc' = "idle"
    /\ t' = NoFrame
    /\ buf' = <<>>
    /\ ret' = 0
    /\ out' = Uninit
    /\ trace' = <<>>
    /\ twin' = Observed
    /\ UNCHANGED <<statics, mock, sess, pinLevel, dev, lastWrite>>

\* SPIdev::SPIdev(slavePin, settings, bitOrder) for a further handle, between
\* two calls of the program
Construct(slavePin, s, bitOrder) ==
    /\ Idle
    /\ slave' = Constructed(slavePin, s, bitOrder, settings).slave
    /\ settings' = Constructed(slavePin, s, bitOrder, settings).settings
    /\ dataOrder' = Constructed(slavePin, s, bitOrder, settings).dataOrder
    /\ UNCHANGED <<session, call, cpc, t, buf, ret, out, trace, pinLevel, dev,
                   lastWrite>>

\* the read of a read-modify-write has returned and its write is yet to be
\* called: the bus is free
BetweenTransactions ==
    /\ call.name \in {"writeBit", "writeBits"}
    /\ cpc = "afterRead"
    /\ trace[Len(trace)][1] = "end"

\* another writer on the bus stores byte v in the register the call in progress
\* has read and has yet to write
OtherWriter ==
    /\ BetweenTransactions
    /\ \E v \in ByteSamples :
          /\ dev' = [reg |-> call.regAddr, data |-> <<v>>]
          /\ Emit(<<"other", call.regAddr, v>>)
    /\ UNCHANGED <<statics, session, call, cpc, t, buf, ret, out, pinLevel,
                   lastWrite>>

(***************************************************************************)
(* Specifications.                                                         *)
(***************************************************************************)
Lengths == 0..MaxLen
BitNums8 == 0..7
BitNums16 == 0..15
\* <<bitStart, length>> of the fields that fit in a byte
Fields8 == {f \in (0..7) \X (1..8) : f[1] - f[2] + 1 >= 0}

\* the steps of the buffer-level functions and of the callers on top of them
ByteSteps ==
    \/ readBytes_begin \/ readBytes_select \/ readBytes_addr \/ readBytes_loop
    \/ readBytes_deselect \/ readBytes_end \/ readBytes_return
    \/ writeBytes_begin \/ writeBytes_select \/ writeBytes_addr
    \/ writeBytes_loop \/ writeBytes_deselect \/ writeBytes_end
    \/ writeBytes_return

WordSteps ==
    \/ readWords_begin \/ readWords_select \/ readWords_addr \/ readWords_loop
    \/ readWords_deselect \/ readWords_end \/ readWords_return
    \/ writeWords_begin \/ writeWords_select \/ writeWords_addr
    \/ writeWords_msb \/ writeWords_lsb \/ writeWords_deselect
    \/ writeWords_end \/ writeWords_return

\* any caller, any device
Next ==
    \/ \E a \in RegAddrs, n \in Lengths : readBytes(a, n)
    \/ \E a \in RegAddrs, n \in Lengths : readWords(a, n)
    \/ \E a \in RegAddrs, n \in Lengths :
          \E d \in [1..n -> ValueSamples] : writeBytes(a, n, d)
    \/ \E a \in RegAddrs, n \in Lengths :
          \E d \in [1..n -> WordSamples] : writeWords(a, n, d)
    \/ \E a \in RegAddrs : readByte(a)
    \/ \E a \in RegAddrs : readWord(a)
    \/ \E a \in RegAddrs, d \in ValueSamples : writeByte(a, d)
    \/ \E a \in RegAddrs, d \in WordSamples : writeWord(a, d)
    \/ \E a \in RegAddrs, n \in BitNums8 : readBit(a, n)
    \/ \E a \in RegAddrs, n \in BitNums16 : readBitW(a, n)
    \/ \E a \in RegAddrs, f \in Fields8 : readBits(a, f[1], f[2])
    \/ \E a \in RegAddrs, n \in BitNums8, d \in ValueSamples : writeBit(a, n, d)
    \/ \E a \in RegAddrs, f \in Fields8, d \in ValueSamples :
          writeBits(a, f[1], f[2], d)
    \/ ByteSteps
    \/ WordSteps
    \/ readBit_store \/ readBitW_store \/ readBits_store
    \/ writeBit_modify \/ writeBits_modify
    \/ Returned

Spec == Init /\ [][Next]_vars

\* a driver that works on one field of one register of a read-back device,
\* whose register holds some byte to begin with
InitMock ==
    /\ InitStatics
    /\ InitCaller
    /\ mock = TRUE
    /\ \E a \in RegAddrs, f \in Fields8 :
          sess = [regAddr |-> a, bitStart |-> f[1], length |-> f[2]]
    /\ \E b \in ByteSamples : dev = [reg |-> sess.regAddr, data |-> <<b>>]
    /\ lastWrite = NoWrite
    /\ twin = NoTwin

NextMock ==
    \/ \E d \in ValueSamples :
          writeBits(sess.regAddr, sess.bitStart, sess.length, d)
    \/ readBits(sess.regAddr, sess.bitStart, sess.length)
    \/ ByteSteps
    \/ readBits_store
    \/ writeBits_modify
    \/ Returned

SpecMock == InitMock /\ [][NextMock]_vars

\* <<bitStart, length>> of the fields that fit in a 16-bit word
Fields16 == {f \in (0..15) \X (1..16) : f[1] - f[2] + 1 >= 0}
\* the register the callers of the 16-bit read-modify-write functions use
RmwAddr == CHOOSE a \in RegAddrs : a \notin {0, 127}

\* callers of the read-modify-write functions and of the writes under them
NextRmw ==
    \/ \E a \in RegAddrs, n \in BitNums8, d \in ValueSamples : writeBit(a, n, d)
    \/ \E a \in RegAddrs, f \in Fields8, d \in ValueSamples :
          writeBits(a, f[1], f[2], d)
    \/ \E n \in BitNums16, d \in WordSamples : writeBitW(RmwAddr, n, d)
    \/ \E f \in Fields16, d \in WordSamples :
          writeBitsW(RmwAddr, f[1], f[2], d)
    \/ \E a \in RegAddrs, n \in Lengths :
          \E d \in [1..n -> ValueSamples] : writeBytes(a, n, d)
    \/ \E a \in RegAddrs, n \in Lengths :
          \E d \in [1..n -> WordSamples] : writeWords(a, n, d)
    \/ ByteSteps
    \/ WordSteps
    \/ writeBit_modify \/ writeBits_modify
    \/ writeBitW_modify \/ writeBitsW_modify
    \/ Returned

SpecRmw == Init /\ [][NextRmw]_vars

\* a driver that works on one field of one register of a read-back device
\* which another writer shares
InitRace ==
    /\ InitStatics
    /\ InitCaller
    /\ mock = TRUE
    /\ \E f \in Fields8 :
          sess = [regAddr |-> RmwAddr, bitStart |-> f[1], length |-> f[2]]
    /\ \E b \in ByteSamples : dev = [reg |-> sess.regAddr, data |-> <<b>>]
    /\ lastWrite = NoWrite
    /\ twin = NoTwin

NextRace ==
    \/ \E d \in ValueSamples :
          writeBits(sess.regAddr, sess.bitStart, sess.length, d)
    \/ \E d \in ValueSamples : writeBit(sess.regAddr, sess.bitStart, d)
    \/ ByteSteps
    \/ writeBit_modify
    \/ writeBits_modify
    \/ OtherWriter
    \/ Returned

SpecRace == InitRace /\ [][NextRace]_vars

\* a program that constructs its first handle, then further handles at any
\* time between calls, and makes every call through the first handle
InitHandles ==
    /\ slave = Constructed(FirstHandle.slavePin, FirstHandle.settings,
                           FirstHandle.bitOrder, DefaultSettings).slave
    /\ settings = Constructed(FirstHandle.slavePin, FirstHandle.settings,
                              FirstHandle.bitOrder, DefaultSettings).settings
    /\ dataOrder = Constructed(FirstHandle.slavePin, FirstHandle.settings,
                               FirstHandle.bitOrder, DefaultSettings).dataOrder
    /\ pinLevel = [p \in HandlePins |-> LOW]
    /\ InitCaller
    /\ dev = NoDev
    /\ mock = FALSE
    /\ sess = NoSess
    /\ lastWrite = NoWrite
    /\ twin = NoTwin

NextHandles ==
    \/ \E p \in HandlePins, s \in SettingsSamples,
          o \in {LSBFIRST, MSBFIRST} : Construct(p, s, o)
    \/ \E n \in Lengths : readWords(RmwAddr, n)
    \/ \E n \in Lengths :
          \E d \in [1..n -> WordSamples] : writeWords(RmwAddr, n, d)
    \/ WordSteps
    \/ Returned

SpecHandles == InitHandles /\ [][NextHandles]_vars

\* a driver that works on one field of one 16-bit register of a read-back
\* device, whose register holds some word to begin with
InitMockW ==
    /\ InitStatics
    /\ InitCaller
    /\ mock = TRUE
    /\ \E f \in Fields16 :
          sess = [regAddr |-> RmwAddr, bitStart |-> f[1], length |-> f[2]]
    /\ \E w \in WordSamples :
          dev = [reg |-> sess.regAddr,
                 data |-> <<writeWords_MSB(w), writeWords_LSB(w)>>]
    /\ lastWrite = NoWrite
    /\ twin = NoTwin

NextMockW ==
    \/ \E d \in WordSamples :
          writeBitsW(sess.regAddr, sess.bitStart, sess.length, d)
    \/ readBitsW(sess.regAddr, sess.bitStart, sess.length)
    \/ WordSteps
    \/ readBitsW_store
    \/ writeBitsW_modify
    \/ Returned

SpecMockW == InitMockW /\ [][NextMockW]_vars

\* a driver that writes words to one register of a read-back device and reads
\* words from it
InitWords ==
    /\ InitStatics
    /\ InitCaller
    /\ mock = TRUE
    /\ sess = NoSess
    /\ dev = NoDev
    /\ lastWrite = NoWrite
    /\ twin = NoTwin

NextWords ==
    \/ \E n \in Lengths \ {0} :
          \E d \in [1..n -> WordSamples] : writeWords(RmwAddr, n, d)
    \/ \E n \in Lengths \ {0} : readWords(RmwAddr, n)
    \/ WordSteps
    \/ Returned

SpecWords == InitWords /\ [][NextWords]_vars

\* device addresses and timeouts a caller of the overloads may pass
DevAddrs == {0, 104}
Timeouts == {readTimeout, 1000}
\* bit numbers and <<bitStart, length>> fields the compared calls are made with
BitSamples8 == {0, 7}
BitSamples16 == {0, 15}
FieldSamples8 == {<<7, 8>>, <<4, 3>>, <<0, 1>>}
FieldSamples16 == {<<15, 16>>, <<12, 3>>, <<7, 8>>, <<0, 1>>}

\* a caller that makes a call without device address and timeout and then the
\* call with them and the same remaining arguments, the device answering the
\* second as it answered the first.  The handle is MSB-first, so that no
\* result depends on uninitialised memory, which two calls need not share.
InitTwin ==
    /\ slave = Constructed(FirstHandle.slavePin, FirstHandle.settings,
                           FirstHandle.bitOrder, DefaultSettings).slave
    /\ settings = Constructed(FirstHandle.slavePin, FirstHandle.settings,
                              FirstHandle.bitOrder, DefaultSettings).settings
    /\ dataOrder = Constructed(FirstHandle.slavePin, FirstHandle.settings,
                               FirstHandle.bitOrder, DefaultSettings).dataOrder
    /\ pinLevel = [p \in Pins |-> LOW]
    /\ InitCaller
    /\ dev = NoDev
    /\ mock = FALSE
    /\ sess = NoSess
    /\ lastWrite = NoWrite
    /\ twin = FirstOfTwo

\* the first call of a comparison
CoreCalls ==
    \/ \E n \in Lengths : readBytes(RmwAddr, n)
    \/ \E n \in Lengths : readWords(RmwAddr, n)
    \/ \E n \in Lengths :
          \E d \in [1..n -> ValueSamples] : writeBytes(RmwAddr, n, d)
    \/ \E n \in Lengths :
          \E d \in [1..n -> WordSamples] : writeWords(RmwAddr, n, d)
    \/ readByte(RmwAddr)
    \/ readWord(RmwAddr)
    \/ \E d \in ValueSamples : writeByte(RmwAddr, d)
    \/ \E d \in WordSamples : writeWord(RmwAddr, d)
    \/ \E n \in BitSamples8 : readBit(RmwAddr, n)
    \/ \E n \in BitSamples16 : readBitW(RmwAddr, n)
    \/ \E f \in FieldSamples8 : readBits(RmwAddr, f[1], f[2])
    \/ \E f \in FieldSamples16 : readBitsW(RmwAddr, f[1], f[2])
    \/ \E n \in BitSamples8, d \in ValueSamples : writeBit(RmwAddr, n, d)
    \/ \E n \in BitSamples16, d \in WordSamples : writeBitW(RmwAddr, n, d)
    \/ \E f \in FieldSamples8, d \in ValueSamples :
          writeBits(RmwAddr, f[1], f[2], d)
    \/ \E f \in FieldSamples16, d \in WordSamples :
          writeBitsW(RmwAddr, f[1], f[2], d)

\* the second call of a comparison: the overload of the function called
\* first, with the arguments c of the first call
OverloadCalls(c) ==
    \E devAddr \in DevAddrs, timeout \in Timeouts :
        \/ c.name = "readBit" /\ readBit_dev(devAddr, c.regAddr, c.bit, timeout)
        \/ c.name = "readBitW"
              /\ readBitW_dev(devAddr, c.regAddr, c.bit, timeout)
        \/ c.name = "readBits"
              /\ readBits_dev(devAddr, c.regAddr, c.bit, c.length, timeout)
        \/ c.name = "readBitsW"
              /\ readBitsW_dev(devAddr, c.regAddr, c.bit, c.length, timeout)
        \/ c.name = "readByte" /\ readByte_dev(devAddr, c.regAddr, timeout)
        \/ c.name = "readWord" /\ readWord_dev(devAddr, c.regAddr, timeout)
        \/ c.name = "readBytes"
              /\ readBytes_dev(devAddr, c.regAddr, c.length, timeout)
        \/ c.name = "readWords"
              /\ readWords_dev(devAddr, c.regAddr, c.length, timeout)
        \/ c.name = "writeBit"
              /\ writeBit_dev(devAddr, c.regAddr, c.bit, c.data)
        \/ c.name = "writeBitW"
              /\ writeBitW_dev(devAddr, c.regAddr, c.bit, c.data)
        \/ c.name = "writeBits"
              /\ writeBits_dev(devAddr, c.regAddr, c.bit, c.length, c.data)
        \/ c.name = "writeBitsW"
              /\ writeBitsW_dev(devAddr, c.regAddr, c.bit, c.length, c.data)
        \/ c.name = "writeByte" /\ writeByte_dev(devAddr, c.regAddr, c.data)
        \/ c.name = "writeWord" /\ writeWord_dev(devAddr, c.regAddr, c.data)
        \/ c.name = "writeBytes"
              /\ writeBytes_dev(devAddr, c.regAddr, c.length, c.data)
        \/ c.name = "writeWords"
              /\ writeWords_dev(devAddr, c.regAddr, c.length, c.data)

NextTwin ==
    \/ ~twin.seen /\ CoreCalls
    \/ twin.seen /\ OverloadCalls(twin.call)
    \/ ByteSteps
    \/ WordSteps
    \/ readBit_store \/ readBitW_store \/ readBits_store \/ readBitsW_store
    \/ writeBit_modify \/ writeBits_modify
    \/ writeBitW_modify \/ writeBitsW_modify
    \/ Returned

SpecTwin == InitTwin /\ [][NextTwin]_vars

\* a caller that passes unit counts around 127 and 255, on a device that
\* answers every read with the same byte; each statement reached is executed
InitLong ==
    /\ InitStatics
    /\ InitCaller
    /\ mock = TRUE
    /\ sess = NoSess
    /\ dev = [reg |-> LongSample.regAddr,
              data |-> [i \in 1..MaxTrace |-> LongSample.byte]]
    /\ lastWrite = NoWrite
    /\ twin = NoTwin

NextLong ==
    \/ \E n \in LongLengths : readBytes(LongSample.regAddr, n)
    \/ \E n \in LongLengths : readWords(LongSample.regAddr, n)
    \/ \E n \in LongLengths :
          writeBytes(LongSample.regAddr, n, [i \in 1..n |-> LongSample.byte])
    \/ \E n \in LongLengths :
          writeWords(LongSample.regAddr, n, [i \in 1..n |-> LongSample.word])
    \/ ByteSteps
    \/ WordSteps
    \/ Returned

\* every step changes the position of the caller or of the function it called
position == <<cpc, t>>
SpecLong == InitLong /\ [][NextLong]_vars /\ WF_position(NextLong)

(***************************************************************************)
(* Properties.  They are stated on the bus events and on the buffers, with *)
(* plain arithmetic in place of the bit operators of the code.             *)
(***************************************************************************)
IsXfer(e) == e[1] = "xfer"
\* the transfers of a sequence of events, in order
XferSeq(s) == SelectSeq(s, IsXfer)
\* bit k of x
Bit(x, k) == (x \div (2 ^ k)) % 2
\* a buffer-level function has begun its transaction (and may have returned)
InTxn(fn) == t.fn = fn /\ t.pc \notin {"none", "begin"}
\* the bytes sent / received after the address byte in the current transaction
DataSent ==
    [i \in 1..(Len(XferSeq(CurTxn)) - 1) |-> XferSeq(CurTxn)[i + 1][2]]
DataReceived ==
    [i \in 1..(Len(XferSeq(CurTxn)) - 1) |-> XferSeq(CurTxn)[i + 1][3]]
LowsOf(s) == {i \in Kinds(s, "cs") : s[i][3] = LOW}
HighsOf(s) == {i \in Kinds(s, "cs") : s[i][3] = HIGH}

\* C1: the first byte of a readBytes/readWords transaction is regAddr + 128
\* (regAddr | 0x80 for a 7-bit address), the first byte of a
\* writeBytes/writeWords transaction is regAddr itself, bit 7 clear.
C1_AddressByte ==
    \A fn \in {"readBytes", "readWords", "writeBytes", "writeWords"} :
        (InTxn(fn) /\ XferSeq(CurTxn) # <<>>) =>
            /\ t.regAddr \in 0..127
            /\ XferSeq(CurTxn)[1][2] =
                  IF fn \in {"readBytes", "readWords"}
                  THEN t.regAddr + 128 ELSE t.regAddr

C1_Witness ==
    /\ t.fn = "readWords" /\ t.pc = "ret"
    /\ t.regAddr = 127 /\ t.length = MaxLen
    /\ XferSeq(CurTxn)[1][2] = 255

C3_DataByteCount ==
    \A fn \in {"readBytes", "readWords", "writeBytes", "writeWords"} :
        (t.fn = fn /\ t.pc = "ret") =>
            Len(XferSeq(CurTxn)) - 1 =
                IF fn \in {"readWords", "writeWords"}
                THEN 2 * t.length ELSE t.length

\* C4: in readWords the first received data byte is placed in bits 15-8 of
\* word 0, whatever the declared bit order.
C4_StartsInMsbPhase ==
    (InTxn("readWords") /\ Len(DataReceived) = 1) =>
        buf[1] = 256 * DataReceived[1]

\* C5: on an MSB-first handle readWords stores, for every i, the word
\* 256 * b[2i] + b[2i+1] of the received data bytes b, and returns the count.
C5_MsbFirstWords ==
    (t.fn = "readWords" /\ t.pc = "ret" /\ dataOrder = MSBFIRST) =>
        /\ t.count = t.length
        /\ Len(DataReceived) = 2 * t.length
        /\ \A i \in 1..t.length :
              buf[i] = 256 * DataReceived[2 * i - 1] + DataReceived[2 * i]

C5_Witness ==
    /\ t.fn = "readWords" /\ t.pc = "ret" /\ dataOrder = MSBFIRST
    /\ t.length = 2
    /\ DataReceived = <<165, 8, 0, 247>>
    /\ buf = <<42248, 247>>

\* C6: for either bit order writeWords sends, after the address byte, bits
\* 15-8 and then bits 7-0 of each word in order; writeWord(0x05, 0xABCD) puts
\* 0x05, 0xAB, 0xCD on the bus inside one chip-select window.
C6_WriteWordsBytes ==
    /\ (t.fn = "writeWords" /\ t.pc = "ret") =>
          /\ XferSeq(CurTxn)[1][2] = t.regAddr
          /\ Len(DataSent) = 2 * t.length
          /\ \A i \in 1..t.length :
                /\ DataSent[2 * i - 1] = buf[i] \div 256
                /\ DataSent[2 * i] = buf[i] % 256
    /\ (call.name = "writeWord" /\ cpc = "done"
        /\ call.regAddr = 5 /\ call.data = 43981) =>
          trace = << <<"begin", settings, 0>>, <<"cs", slave, LOW>>,
                     <<"xfer", 5, Discarded>>, <<"xfer", 171, Discarded>>,
                     <<"xfer", 205, Discarded>>,
                     <<"cs", slave, HIGH>>, <<"end", 0, 0>> >>

C6_Witness ==
    /\ call.name = "writeWord" /\ cpc = "done" /\ dataOrder = LSBFIRST
    /\ call.regAddr = 5 /\ call.data = 43981
    /\ [i \in 1..3 |-> XferSeq(trace)[i][2]] = <<5, 171, 205>>

\* the field <<bitStart, length>> covers bit k
InField(k, bitStart, length) == bitStart - length + 1 <= k /\ k <= bitStart

\* C7: on a read-back device, writeBits leaves every bit of the register
\* outside the field as it was, and a readBits of the same field after it
\* returns the value written, reduced to its low `length` bits.
C7_BitsRoundTrip ==
    /\ (call.name = "writeBits" /\ cpc = "done") =>
          LET x == XferSeq(trace) IN
          /\ Len(x) = 4
          /\ dev = [reg |-> call.regAddr, data |-> <<x[4][2]>>]
          /\ \A k \in 0..7 :
                ~InField(k, call.bit, call.length) =>
                    Bit(x[4][2], k) = Bit(x[2][3], k)
    /\ (call.name = "readBits" /\ cpc = "done"
        /\ lastWrite.regAddr = call.regAddr
        /\ lastWrite.bitStart = call.bit /\ lastWrite.length = call.length) =>
          out = lastWrite.data % (2 ^ call.length)

C7_Witness ==
    /\ call.name = "readBits" /\ cpc = "done"
    /\ call.bit = 4 /\ call.length = 3
    /\ lastWrite = [regAddr |-> call.regAddr, bitStart |-> 4, length |-> 3,
                    data |-> 165]
    /\ dev.data = <<20>>
    /\ out = 5

\* C8: readBits makes one read transaction of one data byte b and returns
\* (b >> (bitStart - length + 1)) & ((1 << length) - 1).
C8_ReadBitsValue ==
    (call.name = "readBits" /\ cpc = "done") =>
        /\ Len(trace) = 6
        /\ trace[1] = <<"begin", settings, 0>>
        /\ trace[2] = <<"cs", slave, LOW>>
        /\ trace[3] = <<"xfer", call.regAddr + 128, Discarded>>
        /\ trace[4][1] = "xfer"
        /\ trace[5] = <<"cs", slave, HIGH>>
        /\ trace[6] = <<"end", 0, 0>>
        /\ ret = 1
        /\ out = (trace[4][3] \div (2 ^ (call.bit - call.length + 1)))
                    % (2 ^ call.length)

C8_Witness ==
    /\ call.name = "readBits" /\ cpc = "done"
    /\ call.bit = 5 /\ call.length = 3
    /\ trace[4] = <<"xfer", 0, 165>>
    /\ out = 4

\* C9: readBit stores a non-zero value exactly when bit bitNum of the byte
\* read is set; readBitW does so for bit bitNum (0..15) of the word read.
C9_ReadBitTruth ==
    /\ (call.name = "readBit" /\ cpc = "done") =>
          /\ Len(XferSeq(trace)) = 2
          /\ (out # 0) <=> (Bit(XferSeq(trace)[2][3], call.bit) = 1)
    /\ (call.name = "readBitW" /\ cpc = "done") =>
          /\ out \in 0..65535
          /\ (out # 0) <=> (Bit(buf[1], call.bit) = 1)

C9_Witness ==
    /\ call.name = "readBit" /\ cpc = "done"
    /\ call.bit = 3
    /\ XferSeq(trace)[2][3] = 8
    /\ out # 0

\* C10: the byte writeBit sends in its write transaction is the byte b it
\* read, with bit bitNum set when value is non-zero and cleared when it is
\* zero, the other seven bits as in b.
C10_WriteBitByte ==
    (call.name = "writeBit" /\ cpc = "done") =>
        LET x == XferSeq(trace) IN
        /\ Len(x) = 4
        /\ x[3][2] = call.regAddr
        /\ x[4][2] \in 0..255
        /\ \A k \in 0..7 :
              Bit(x[4][2], k) =
                  IF k = call.bit THEN (IF call.data # 0 THEN 1 ELSE 0)
                  ELSE Bit(x[2][3], k)

C10_Witness ==
    /\ call.name = "writeBit" /\ cpc = "done"
    /\ call.bit = 5 /\ call.data = 1
    /\ XferSeq(trace)[2][3] = 0
    /\ XferSeq(trace)[4][2] = 32

\* C11: for every requested length, readBytes keeps its count and buffer index
\* within 0..length, stores only into the elements 0..length-1 of the buffer,
\* and returns the requested length with the received bytes stored in order.
C11_ReadBytesCount ==
    /\ t.fn = "readBytes" =>
          /\ 0 <= t.count /\ t.count <= t.length
          /\ DOMAIN buf = 1..t.length
    /\ (At("readBytes", "ret") /\ Len(trace) < MaxTrace) =>
          /\ t.count = t.length
          /\ \A i \in 1..t.length : buf[i] = DataReceived[i]
    /\ (call.name = "readBytes" /\ cpc = "done") => ret = call.length

\* C12: every buffer-level call that has begun goes on to drive chip-select
\* high, release the bus and return.
C12_Terminates ==
    (t.fn \in {"readBytes", "readWords", "writeBytes", "writeWords"})
        ~> (t.pc = "ret" /\ pinLevel[slave] = HIGH)

\* s is one complete transaction: bus acquired, chip-select low, address byte
\* ab, u data bytes, chip-select high, bus released
IsTransaction(s, ab, u) ==
    /\ Len(s) = 5 + u
    /\ s[1] = <<"begin", settings, 0>>
    /\ s[2] = <<"cs", slave, LOW>>
    /\ s[3] = <<"xfer", ab, Discarded>>
    /\ \A i \in 4..(3 + u) : s[i][1] = "xfer"
    /\ s[4 + u] = <<"cs", slave, HIGH>>
    /\ s[5 + u] = <<"end", 0, 0>>
\* bytes in the unit a function works on
UnitBytes(name) ==
    IF name \in {"readBitW", "readBitsW", "writeBitW", "writeBitsW",
                 "readWord", "writeWord", "readWords", "writeWords"}
    THEN 2 ELSE 1

\* C13: writeBit, writeBits, writeBitW and writeBitsW each make exactly two
\* transactions, one after the other: a complete read transaction (address
\* + 128, then the data bytes of one unit) and then a complete write
\* transaction (address, then the data bytes of the merged unit), with
\* chip-select high in between.
C13_ReadThenWrite ==
    (call.name \in {"writeBit", "writeBits", "writeBitW", "writeBitsW"}
     /\ cpc = "done") =>
        LET u == UnitBytes(call.name)
        IN  /\ Len(trace) = 2 * (5 + u)
            /\ IsTransaction(SubSeq(trace, 1, 5 + u), call.regAddr + 128, u)
            /\ IsTransaction(SubSeq(trace, 6 + u, Len(trace)), call.regAddr, u)

\* the byte another writer stored between the two transactions of the call
OtherByte == trace[MaxOf(Kinds(trace, "other"))][3]
\* the byte the read transaction of the call received
StaleByte == XferSeq(trace)[2][3]

\* C14: when another writer changes the register between the read and the
\* write transaction of writeBit/writeBits, the register ends up with the bits
\* outside the target field that the read transaction saw, whatever the other
\* writer stored: nothing isolates the read from the write.
C14_StaleWrite ==
    (call.name \in {"writeBit", "writeBits"} /\ cpc = "done"
     /\ Kinds(trace, "other") # {}) =>
        /\ dev.reg = call.regAddr
        /\ Len(dev.data) = 1
        /\ \A k \in 0..7 :
              ~InField(k, call.bit, call.length) =>
                  Bit(dev.data[1], k) = Bit(StaleByte, k)

\* the lost update: a bit outside the field that the other writer changed is
\* back to what it was
C14_Witness ==
    /\ call.name = "writeBits" /\ cpc = "done"
    /\ Kinds(trace, "other") # {}
    /\ \E k \in 0..7 :
          /\ ~InField(k, call.bit, call.length)
          /\ Bit(OtherByte, k) # Bit(StaleByte, k)
          /\ Bit(dev.data[1], k) = Bit(StaleByte, k)

\* C15: whatever further handles are constructed, a call made through the
\* first handle drives the chip-select pin that handle was constructed with
\* and sequences the bytes of a word by that handle's bit order (MSB-first:
\* the first data byte received is the high byte of word 0).
C15_OwnConfiguration ==
    /\ \A i \in Kinds(trace, "cs") : trace[i][2] = FirstHandle.slavePin
    /\ (InTxn("readWords") /\ Len(DataReceived) = 1) =>
          buf[1] = 256 * DataReceived[1]

\* C16: every transaction acquires the bus with the configuration that was
\* passed to the constructor of the handle.
C16_ConstructorSettings ==
    \A i \in Kinds(trace, "begin") : trace[i][2] = FirstHandle.settings

\* C17: in every call the bus is acquired once per transaction, just before
\* chip-select is driven low, and released once, just after chip-select is
\* driven high; while a transaction is open there is one acquisition more than
\* releases, and whenever none is open (so after every completed operation)
\* the acquisitions and the releases are equal in number.
C17_AcquireRelease ==
    LET begins == Kinds(trace, "begin")
        ends == Kinds(trace, "end")
        open == t.pc \in {"select", "addr", "loop", "lsb", "end"}
    IN  /\ Cardinality(begins) =
               Cardinality(ends) + (IF open THEN 1 ELSE 0)
        /\ \A i \in begins :
              /\ Cardinality({j \in ends : j < i}) =
                     Cardinality({k \in begins : k < i})
              /\ i < Len(trace) => trace[i + 1] = <<"cs", slave, LOW>>
        /\ \A i \in LowsOf(trace) : i > 1 /\ trace[i - 1][1] = "begin"
        /\ \A j \in ends : trace[j - 1] = <<"cs", slave, HIGH>>
        /\ \A i \in HighsOf(trace) :
              i < Len(trace) => trace[i + 1] = <<"end", 0, 0>>
        /\ (begins # {} /\ ~open) => trace[Len(trace)] = <<"end", 0, 0>>

C17_Witness ==
    /\ call.name = "writeBits" /\ cpc = "done"
    /\ Cardinality(Kinds(trace, "begin")) = 2
    /\ Cardinality(Kinds(trace, "end")) = 2
    /\ Kinds(trace, "end") = {6, 12}

\* C18: writeBytes and writeWords return true whatever the address, length
\* and data; the read inside writeBits/writeBitsW always reports one unit, so
\* every call of writeBits/writeBitsW goes on to its write transaction and
\* returns true (a call that returned false would have made no write
\* transaction).
C18_WritesSucceed ==
    LET bits == call.name \in {"writeBits", "writeBitsW"}
        begins == Kinds(trace, "begin")
    IN  /\ (call.name \in {"writeBytes", "writeWords"} /\ cpc = "done") =>
              ret = BoolOf(TRUE)
        /\ (bits /\ cpc = "afterRead") => ret = 1
        /\ (bits /\ cpc = "done") =>
              /\ ret = BoolOf(TRUE)
              /\ Cardinality(begins) = 2
              /\ trace[MaxOf(begins) + 2] = <<"xfer", call.regAddr, Discarded>>
        /\ (bits /\ cpc = "done" /\ ret = BoolOf(FALSE)) =>
              Cardinality(begins) = 1

C18_Witness ==
    /\ call.name = "writeBitsW" /\ cpc = "done" /\ ret = BoolOf(TRUE)
    /\ Cardinality(Kinds(trace, "begin")) = 2
    /\ call.length = 16

\* what a call has done so far is the beginning of what the call before did
IsPrefix(a, b) == Len(a) <= Len(b) /\ a = SubSeq(b, 1, Len(a))

C20_BitsWRoundTrip ==
    dataOrder = MSBFIRST =>
        /\ (call.name = "writeBitsW" /\ cpc = "done") =>
              LET x == XferSeq(trace)
                  prior == 256 * x[2][3] + x[3][3]
                  written == 256 * x[5][2] + x[6][2]
              IN  /\ Len(x) = 6
                  /\ dev = [reg |-> call.regAddr, data |-> <<x[5][2], x[6][2]>>]
                  /\ \A k \in 0..15 :
                        ~InField(k, call.bit, call.length) =>
                            Bit(written, k) = Bit(prior, k)
        /\ (call.name = "readBitsW" /\ cpc = "done"
            /\ lastWrite.regAddr = call.regAddr
            /\ lastWrite.bitStart = call.bit
            /\ lastWrite.length = call.length) =>
              out = lastWrite.data % (2 ^ call.length)

C20_Witness ==
    /\ dataOrder = MSBFIRST
    /\ call.name = "readBitsW" /\ cpc = "done"
    /\ call.bit = 12 /\ call.length = 3
    /\ lastWrite = [regAddr |-> call.regAddr, bitStart |-> 12, length |-> 3,
                    data |-> 43981]
    /\ out = 5

\* C21: on a read-back device and for either bit order, writeWords of n >= 1
\* words leaves the device with the two bytes of each word, and a readWords
\* of n words from the same register after it returns n and exactly those
\* words (the words written there last), each made of the two bytes received
\* for it and of nothing else.
C21_WordsRoundTrip ==
    /\ (call.name = "writeWords" /\ cpc = "done") =>
          /\ dev.reg = call.regAddr
          /\ Len(dev.data) >= 2 * call.length
          /\ \A i \in 1..call.length :
                256 * dev.data[2 * i - 1] + dev.data[2 * i] = call.data[i]
    /\ (call.name = "readWords" /\ cpc = "done"
        /\ dev.reg = call.regAddr /\ Len(dev.data) >= 2 * call.length) =>
          /\ ret = call.length
          /\ \A i \in 1..call.length :
                buf[i] = 256 * dev.data[2 * i - 1] + dev.data[2 * i]

\* C22: whenever no buffer-level function is in progress (before the first
\* call, between calls, and between the read and the write of a
\* read-modify-write), chip-select is high.
C22_IdleDeselected ==
    t.fn = "none" => pinLevel[slave] = HIGH

====
